---- MODULE Spec2Model ----
(***************************************************************************)
(* The in-memory storage backend of fake-gcs-server                        *)
(* (internal/backend/memory.go): a map from bucket name to bucketInMemory  *)
(* guarded by one sync.RWMutex, called by concurrent goroutines.           *)
(*                                                                         *)
(* Slices are modelled by their visible elements (a sequence).  Every path *)
(* of the code that changes a slice of a bucket writes the bucket struct   *)
(* back into the map under the exclusive lock, so the map's view of        *)
(* activeObjects / archivedObjects is exactly the sequence kept here.      *)
(* Go indexes from 0 and findObject returns -1 for "not found"; sequences  *)
(* here index from 1, so element i of the code is element i + 1 here.      *)
(***************************************************************************)
EXTENDS Integers, Sequences, FiniteSets, TLC

\* ---------------------------------------------------------------- bounds
\* Goroutines calling the engine, and calls made, when calls run concurrently.
NumThreads == 2
MaxCalls == 4
\* Calls made when one goroutine calls the engine.
MaxSeqCalls == 4
\* Calls made when the calls are matched against sequential executions.
MaxLinCalls == 3
\* Calls made when the calls are followed to their returns.
MaxLiveCalls == 3
\* Objects the engine is constructed from, and calls made after, when the
\* construction is examined.
MaxNewSeed == 3
MaxNewCalls == 1
\* Calls made when generations and arrays are followed.
MaxTrackCalls == 3
\* Ticks of the clock, the largest generation a caller supplies, and the
\* number of objects the engine is constructed from.
MaxTicks == 1
MaxUserGen == 1
MaxSeed == 1

\* ------------------------------------------------------------- constants
\* time.Now().UnixNano() / 1000
NanosPerMicro == 1000

\* ------------------------------------------------------------ input sets
Threads == 1..NumThreads
BucketNames == {"b1", "b2"}
ObjectNames == {"o1", "o2"}
UserGens == 0..MaxUserGen
\* What the callers draw their arguments from: concurrent goroutines work on
\* one bucket, a single goroutine on two; where the calls are matched against
\* sequential executions they work on one object name.
Scope(buckets, names, maxCalls) ==
    [buckets |-> buckets, names |-> names, maxCalls |-> maxCalls]
ConcScope == Scope({"b1"}, ObjectNames, MaxCalls)
SeqScope == Scope(BucketNames, ObjectNames, MaxSeqCalls)
LinScope == Scope({"b1"}, {"o1"}, MaxLinCalls)
LiveScope == Scope({"b1"}, {"o1"}, MaxLiveCalls)
NewScope == Scope(BucketNames, ObjectNames, MaxNewCalls)
TrackScope == Scope({"b1"}, ObjectNames, MaxTrackCalls)
\* The process clock, in nanoseconds since the epoch; it starts after the
\* epoch and a tick advances it by one microsecond: two readings with no tick
\* between them fall into the same microsecond.
TickNanos == NanosPerMicro
Now0 == NanosPerMicro
MaxNow == Now0 + MaxTicks * TickNanos

\* ------------------------------------------------------------ the Object
\* backend.Object: the fields memory.go reads and writes, and one opaque
\* payload field.  Payloads are numbered: every written object carries a
\* payload of its own, so that two versions are never confused.
Object(b, n, g, c) ==
    [BucketName |-> b, Name |-> n, Generation |-> g, Deleted |-> <<>>, Content |-> c]

\* Object{} : the zero value.
ZeroObject == Object("", "", 0, 0)

\* Object.IDNoGen(): the logical identity (bucket, name).
IDNoGen(o) == <<o.BucketName, o.Name>>

\* Object.ID(): the full identity (bucket, name, generation).
ID(o) == <<o.BucketName, o.Name, o.Generation>>

\* time.Now().Format(time.RFC3339): a timestamp text with a resolution of one
\* second; never the empty text.
FormatRFC3339(t) == <<"T", t \div 1000000000>>

\* ------------------------------------------------------- bucketInMemory
\* Bucket{name, versioningEnabled, time.Now()}
Bucket(name, versioningEnabled, t) ==
    [Name |-> name, VersioningEnabled |-> versioningEnabled, TimeCreated |-> t]

newBucketInMemory(name, versioningEnabled, t) ==
    [Name |-> name, VersioningEnabled |-> versioningEnabled, TimeCreated |-> t,
     activeObjects |-> <<>>, archivedObjects |-> <<>>]

\* bucketInMemory{} : the zero value getBucketInMemory returns with an error.
ZeroBucketInMemory == newBucketInMemory("", FALSE, 0)

getNewGenerationIfZero(generation, t) ==
    IF generation = 0 THEN t \div NanosPerMicro ELSE generation

\* The 0-based index of the first element of objectList with obj's identity,
\* or -1.
findObject(obj, objectList, matchGeneration) ==
    LET hits == {i \in 1..Len(objectList) :
                    IF matchGeneration
                    THEN ID(obj) = ID(objectList[i])
                    ELSE IDNoGen(obj) = IDNoGen(objectList[i])}
    IN  IF hits = {} THEN -1
        ELSE (CHOOSE i \in hits : \A j \in hits : i <= j) - 1

\* cpToArchive putting the entry in front of the archive.
cpToArchive_Front(bm, obj) ==
    [bm EXCEPT !.archivedObjects = <<obj>> \o @]

cpToArchive(bm, obj) ==
    [bm EXCEPT !.archivedObjects = Append(@, obj)]

\* The removal without the swap: the last element is cut off.
SwapRemove_TruncateOnly(objects, index) ==
    SubSeq(objects, 1, Len(objects) - 1)

\* objects[index] = objects[len-1]; objects[:len-1]
SwapRemove(objects, index) ==
    SubSeq([objects EXCEPT ![index + 1] = objects[Len(objects)]],
           1, Len(objects) - 1)

\* deleteFromObjectList searches by logical identity in the active list and
\* by full identity in the archive (findObject(obj, objects, !active)).  The
\* code indexes with the result without testing it: a miss (index -1) is an
\* index-out-of-range panic, which no caller of this file can trigger, since
\* deleteObject calls it only after findObject found the object in
\* activeObjects.  A miss leaves the bucket as it is here.
deleteFromObjectList(bm, obj, active) ==
    LET objects == IF active THEN bm.activeObjects ELSE bm.archivedObjects
        index == findObject(obj, objects, ~active)
    IN  IF index < 0 THEN bm
        ELSE IF active
             THEN [bm EXCEPT !.activeObjects = SwapRemove(objects, index)]
             ELSE [bm EXCEPT !.archivedObjects = SwapRemove(objects, index)]

mvToArchive(bm, obj) ==
    deleteFromObjectList(cpToArchive(bm, obj), obj, TRUE)

\* addObject with the retired entry copied to the archive before its deleted
\* marker is stamped.
addObject_CopyBeforeStamp(bm, obj0, t) ==
    LET obj == [obj0 EXCEPT !.Generation = getNewGenerationIfZero(obj0.Generation, t)]
        index == findObject(obj, bm.activeObjects, FALSE)
    IN  IF index >= 0
        THEN IF bm.VersioningEnabled
             THEN [cpToArchive(bm, bm.activeObjects[index + 1])
                     EXCEPT !.activeObjects[index + 1] = obj]
             ELSE [bm EXCEPT !.activeObjects[index + 1] = obj]
        ELSE [bm EXCEPT !.activeObjects = Append(@, obj)]

\* addObject looking the object up by its full identity.
addObject_MatchGeneration(bm, obj0, t) ==
    LET obj == [obj0 EXCEPT !.Generation = getNewGenerationIfZero(obj0.Generation, t)]
        index == findObject(obj, bm.activeObjects, TRUE)
    IN  IF index >= 0
        THEN IF bm.VersioningEnabled
             THEN LET retired == [bm.activeObjects[index + 1]
                                    EXCEPT !.Deleted = FormatRFC3339(t)]
                  IN  [cpToArchive(bm, retired)
                         EXCEPT !.activeObjects[index + 1] = obj]
             ELSE [bm EXCEPT !.activeObjects[index + 1] = obj]
        ELSE [bm EXCEPT !.activeObjects = Append(@, obj)]

\* addObject archiving the superseded entry whatever the bucket's versioning.
addObject_AlwaysArchive(bm, obj0, t) ==
    LET obj == [obj0 EXCEPT !.Generation = getNewGenerationIfZero(obj0.Generation, t)]
        index == findObject(obj, bm.activeObjects, FALSE)
    IN  IF index >= 0
        THEN LET retired == [bm.activeObjects[index + 1]
                               EXCEPT !.Deleted = FormatRFC3339(t)]
             IN  [cpToArchive(bm, retired) EXCEPT !.activeObjects[index + 1] = obj]
        ELSE [bm EXCEPT !.activeObjects = Append(@, obj)]

addObject(bm, obj0, t) ==
    LET obj == [obj0 EXCEPT !.Generation = getNewGenerationIfZero(obj0.Generation, t)]
        index == findObject(obj, bm.activeObjects, FALSE)
    IN  IF index >= 0
        THEN IF bm.VersioningEnabled
             THEN LET retired == [bm.activeObjects[index + 1]
                                    EXCEPT !.Deleted = FormatRFC3339(t)]
                  IN  [cpToArchive(bm, retired)
                         EXCEPT !.activeObjects[index + 1] = obj]
             ELSE [bm EXCEPT !.activeObjects[index + 1] = obj]
        ELSE [bm EXCEPT !.activeObjects = Append(@, obj)]

\* deleteObject archiving the entry without a deleted marker.
deleteObject_NoStamp(bm, obj, matchGeneration, t) ==
    LET index == findObject(obj, bm.activeObjects, matchGeneration)
    IN  IF index < 0 THEN bm
        ELSE IF bm.VersioningEnabled
             THEN mvToArchive(bm, obj)
             ELSE deleteFromObjectList(bm, obj, TRUE)

deleteObject(bm, obj, matchGeneration, t) ==
    LET index == findObject(obj, bm.activeObjects, matchGeneration)
    IN  IF index < 0 THEN bm
        ELSE IF bm.VersioningEnabled
             THEN mvToArchive(bm, [obj EXCEPT !.Deleted = FormatRFC3339(t)])
             ELSE deleteFromObjectList(bm, obj, TRUE)

\* ------------------------------------------------------ the bucket map
\* s.buckets : map[string]bucketInMemory, a function on the names present.
Put(bks, name, bm) ==
    [x \in (DOMAIN bks) \cup {name} |-> IF x = name THEN bm ELSE bks[x]]

NoBuckets == [x \in {} |-> ZeroBucketInMemory]

\* s.buckets[name]: the zero value for a name the map does not hold.
MapGet(bks, name) == IF name \in DOMAIN bks THEN bks[name] ELSE ZeroBucketInMemory

\* The error kinds of the engine; "nil" is success.
ErrNil == "nil"
ErrNotFound == "NotFound"
ErrConflict == "Conflict"

\* getBucketInMemory answering a missing name with the zero bucket and no
\* error.
getBucketInMemory_NoError(bks, name) ==
    IF name \in DOMAIN bks
    THEN [bucket |-> bks[name], err |-> ErrNil]
    ELSE [bucket |-> ZeroBucketInMemory, err |-> ErrNil]

getBucketInMemory(bks, name) ==
    IF name \in DOMAIN bks
    THEN [bucket |-> bks[name], err |-> ErrNil]
    ELSE [bucket |-> ZeroBucketInMemory, err |-> ErrNotFound]

\* What a call returns: its error, and the buckets or objects it yields.
Ret(err, bkts, objs) == [err |-> err, bkts |-> bkts, objs |-> objs]
NoRet == Ret("none", {}, <<>>)

BucketOf(bm) == Bucket(bm.Name, bm.VersioningEnabled, bm.TimeCreated)

\* CreateBucket storing a fresh bucket whenever the flags agree.
CreateBucketBody_Recreate(bks, looked, name, versioningEnabled, t) ==
    IF looked.err = ErrNil /\ looked.bucket.VersioningEnabled # versioningEnabled
    THEN [bks |-> bks, err |-> ErrConflict]
    ELSE [bks |-> Put(bks, name, newBucketInMemory(name, versioningEnabled, t)),
          err |-> ErrNil]

\* CreateBucket reporting the conflict after storing the new bucket.
CreateBucketBody_StoreFirst(bks, looked, name, versioningEnabled, t) ==
    IF looked.err = ErrNil /\ looked.bucket.VersioningEnabled = versioningEnabled
    THEN [bks |-> bks, err |-> ErrNil]
    ELSE [bks |-> Put(bks, name, newBucketInMemory(name, versioningEnabled, t)),
          err |-> IF looked.err = ErrNil THEN ErrConflict ELSE ErrNil]

\* The body of CreateBucket after its lookup: the new map and the error.
CreateBucketBody(bks, looked, name, versioningEnabled, t) ==
    IF looked.err = ErrNil
    THEN IF looked.bucket.VersioningEnabled # versioningEnabled
         THEN [bks |-> bks, err |-> ErrConflict]
         ELSE [bks |-> bks, err |-> ErrNil]
    ELSE [bks |-> Put(bks, name, newBucketInMemory(name, versioningEnabled, t)),
          err |-> ErrNil]

\* CreateObject storing the objects under a bucket made anew.
CreateObjectBody_FreshBucket(bks, looked, obj, t) ==
    LET fresh == newBucketInMemory(obj.BucketName, FALSE, t)
        bm == IF looked.err # ErrNil THEN fresh
              ELSE [fresh EXCEPT !.activeObjects = looked.bucket.activeObjects,
                                 !.archivedObjects = looked.bucket.archivedObjects]
    IN  [bks |-> Put(bks, obj.BucketName, addObject(bm, obj, t)), err |-> ErrNil]

\* The body of CreateObject after its lookup.
CreateObjectBody(bks, looked, obj, t) ==
    LET bm == IF looked.err # ErrNil
              THEN newBucketInMemory(obj.BucketName, FALSE, t)
              ELSE looked.bucket
    IN  [bks |-> Put(bks, obj.BucketName, addObject(bm, obj, t)), err |-> ErrNil]

\* DeleteObject deleting by the logical identity alone.
DeleteObjectBody_AnyGeneration(bks, looked, bucketName, obj, t) ==
    IF looked.err # ErrNil
    THEN [bks |-> bks, err |-> looked.err]
    ELSE [bks |-> Put(bks, bucketName, deleteObject(looked.bucket, obj, FALSE, t)),
          err |-> ErrNil]

\* The body of DeleteObject's exclusive section after its lookup; obj is what
\* its GetObject returned.
DeleteObjectBody(bks, looked, bucketName, obj, t) ==
    IF looked.err # ErrNil
    THEN [bks |-> bks, err |-> looked.err]
    ELSE [bks |-> Put(bks, bucketName, deleteObject(looked.bucket, obj, TRUE, t)),
          err |-> ErrNil]

\* ListBuckets: the map is ranged over in no particular order; the result is
\* kept as the set of its elements.
ListBucketsRes(bks) ==
    Ret(ErrNil, {BucketOf(bks[x]) : x \in DOMAIN bks}, <<>>)

GetBucketRes(bks, name) ==
    LET looked == getBucketInMemory(bks, name)
    IN  Ret(looked.err, {BucketOf(looked.bucket)}, <<>>)

ListObjectsRes(bks, bucketName, versions) ==
    LET looked == getBucketInMemory(bks, bucketName)
    IN  IF looked.err # ErrNil THEN Ret(looked.err, {}, <<>>)
        ELSE IF ~versions THEN Ret(ErrNil, {}, looked.bucket.activeObjects)
        ELSE Ret(ErrNil, {},
                 looked.bucket.activeObjects \o looked.bucket.archivedObjects)

GetObjectWithGenerationRes(bks, bucketName, objectName, generation) ==
    LET looked == getBucketInMemory(bks, bucketName)
        matchGeneration == generation # 0
        obj == [ZeroObject EXCEPT !.BucketName = bucketName, !.Name = objectName,
                                  !.Generation = generation]
        listToConsider == IF generation # 0
                          THEN looked.bucket.activeObjects
                                 \o looked.bucket.archivedObjects
                          ELSE looked.bucket.activeObjects
        index == findObject(obj, listToConsider, matchGeneration)
    IN  IF looked.err # ErrNil THEN Ret(looked.err, {}, <<ZeroObject>>)
        ELSE IF index < 0 THEN Ret(ErrNotFound, {}, <<obj>>)
        ELSE Ret(ErrNil, {}, <<listToConsider[index + 1]>>)

GetObjectRes(bks, bucketName, objectName) ==
    GetObjectWithGenerationRes(bks, bucketName, objectName, 0)

\* NewStorageMemory creating its buckets with versioning enabled.
RECURSIVE NewStorageMemoryFrom_Versioned(_, _, _, _)
NewStorageMemoryFrom_Versioned(bks, objects, i, t) ==
    IF i > Len(objects) THEN bks
    ELSE LET o == objects[i]
             made == CreateBucketBody(bks, getBucketInMemory(bks, o.BucketName),
                                      o.BucketName, TRUE, t).bks
             bucket == MapGet(made, o.BucketName)
         IN  NewStorageMemoryFrom_Versioned(
                 Put(made, o.BucketName, addObject(bucket, o, t)), objects, i + 1, t)

\* NewStorageMemory(objects): for each object, CreateBucket(name, false) and
\* addObject on the map's bucket, written back.  Construction is over before
\* the first call; the clock reads t throughout.
RECURSIVE NewStorageMemoryFrom(_, _, _, _)
NewStorageMemoryFrom(bks, objects, i, t) ==
    IF i > Len(objects) THEN bks
    ELSE LET o == objects[i]
             made == CreateBucketBody(bks, getBucketInMemory(bks, o.BucketName),
                                      o.BucketName, FALSE, t).bks
             bucket == MapGet(made, o.BucketName)
         IN  NewStorageMemoryFrom(Put(made, o.BucketName, addObject(bucket, o, t)),
                                  objects, i + 1, t)

NewStorageMemory(objects, t) == NewStorageMemoryFrom(NoBuckets, objects, 1, t)

\* ------------------------------------------- slices and their arrays
\* A slice is a window on an array: a bucket's activeObjects is the first
\* len cells of its array, whose length is the slice's capacity.  A copy of
\* the slice (the bucket struct is copied by value, ListObjects returns
\* bucketInMemory.activeObjects) is a window on the same array.  The arrays of
\* the active slices are kept as the sequence of all their cells.

\* []Object{} : no cells.
NoCells == <<>>

ZeroCells(n) == [i \in 1..n |-> ZeroObject]

\* The capacity append gives the array it allocates when newLen elements do
\* not fit into oldCap: the growth rule of the Go runtime for small slices
\* (rounding up to an allocation size class can only add spare cells).
GrowCap(oldCap, newLen) ==
    IF newLen > 2 * oldCap THEN newLen ELSE 2 * oldCap

\* append(slice, elems...) for the slice of the first len cells: nothing to
\* append gives the slice back; elements that fit its capacity are written
\* into the cells behind it, in the same array; otherwise a new array is
\* allocated (moved) and the old one is left as it is.
AppendCells(cells, len, elems) ==
    IF Len(elems) = 0 THEN [cells |-> cells, moved |-> FALSE]
    ELSE IF len + Len(elems) <= Len(cells)
    THEN [cells |-> [i \in 1..Len(cells) |->
                        IF i > len /\ i <= len + Len(elems)
                        THEN elems[i - len] ELSE cells[i]],
          moved |-> FALSE]
    ELSE [cells |-> SubSeq(cells, 1, len) \o elems
                      \o ZeroCells(GrowCap(Len(cells), len + Len(elems))
                                    - len - Len(elems)),
          moved |-> TRUE]

\* addObject on the array of bm.activeObjects: bm.activeObjects[index] = obj
\* writes the cell in place (the deleted marker stamped on the cell just
\* before is overwritten with it); append writes the cell behind the slice
\* or allocates.
addObjectCells(cells, bm, obj0, t) ==
    LET obj == [obj0 EXCEPT !.Generation = getNewGenerationIfZero(obj0.Generation, t)]
        index == findObject(obj, bm.activeObjects, FALSE)
    IN  IF index >= 0
        THEN [cells |-> [cells EXCEPT ![index + 1] = obj], moved |-> FALSE]
        ELSE AppendCells(cells, Len(bm.activeObjects), <<obj>>)

\* deleteObject on the array of bm.activeObjects: deleteFromObjectList writes
\* objects[index] = objects[len(objects)-1] in place and shortens the slice;
\* the last cell keeps what it held.
deleteObjectCells(cells, bm, obj, matchGeneration) ==
    LET found == findObject(obj, bm.activeObjects, matchGeneration)
        index == findObject(obj, bm.activeObjects, FALSE)
    IN  IF found < 0 THEN cells
        ELSE [cells EXCEPT ![index + 1] = cells[Len(bm.activeObjects)]]

\* The arrays of the buckets' active slices after NewStorageMemory has added
\* the first i objects.
RECURSIVE NewStorageMemoryCells(_, _, _)
NewStorageMemoryCells(objects, i, t) ==
    IF i = 0 THEN [x \in {} |-> NoCells]
    ELSE LET o == objects[i]
             arrs == NewStorageMemoryCells(objects, i - 1, t)
             bks == NewStorageMemory(SubSeq(objects, 1, i - 1), t)
             bm == IF o.BucketName \in DOMAIN bks THEN bks[o.BucketName]
                   ELSE newBucketInMemory(o.BucketName, FALSE, t)
             cells == IF o.BucketName \in DOMAIN bks THEN arrs[o.BucketName]
                      ELSE NoCells
         IN  Put(arrs, o.BucketName, addObjectCells(cells, bm, o, t).cells)

\* The generations getNewGenerationIfZero assigned while NewStorageMemory
\* added the objects, in the order of the calls.
NewStorageMemoryAssigned(objects, t) ==
    LET zero == SelectSeq(objects, LAMBDA o : o.Generation = 0)
    IN  [i \in 1..Len(zero) |-> getNewGenerationIfZero(0, t)]

\* ------------------------------------------------------------- the state
VARIABLES
    buckets,    \* s.buckets
    readers,    \* s.mtx: the goroutines holding the shared lock
    writer,     \* s.mtx: the goroutine holding the exclusive lock, or 0
    pc,         \* where each goroutine is in its call
    call,       \* each goroutine's current call and its arguments
    local,      \* each goroutine's locals: the looked-up bucket, and obj
    ret,        \* what a goroutine's call returned
    now,        \* the process clock
    ncalls,     \* calls made so far
    lin,        \* the sequential executions that explain the calls so far
    seed,       \* the objects the engine was constructed from
    assigned,   \* the generations getNewGenerationIfZero has assigned, in order
    arrays,     \* the cells of the array of each bucket's activeObjects
    snap      \* the slice a ListObjects call returned, and what it holds now

vars == <<buckets, readers, writer, pc, call, local, ret, now, ncalls, lin,
          seed, assigned, arrays, snap>>

Call(op, bucket, name, gen, content, flag) ==
    [op |-> op, bucket |-> bucket, name |-> name, gen |-> gen,
     content |-> content, flag |-> flag]
NoCall == Call("none", "", "", 0, 0, FALSE)

\* The object a CreateObject call passes.
ArgObject(c) == Object(c.bucket, c.name, c.gen, c.content)

Looked(bm, err) == [bucket |-> bm, err |-> err]
NoLocal == [looked |-> Looked(ZeroBucketInMemory, "none"), obj |-> ZeroObject]

\* The objects the engine is constructed from: object i of the sequence
\* carries payload -i.
SeedObjects == {Object("b1", n, g, 0) : n \in ObjectNames, g \in UserGens}
SeedSeqs ==
    UNION {{[i \in 1..k |-> [f[i] EXCEPT !.Content = 0 - i]] : f \in [1..k -> SeedObjects]}
              : k \in 0..MaxSeed}

\* The same where the construction is examined: longer sequences, over two
\* buckets.
NewSeedObjects ==
    {Object(b, n, g, 0) : b \in BucketNames, n \in ObjectNames, g \in UserGens}
NewSeedSeqs ==
    UNION {{[i \in 1..k |-> [f[i] EXCEPT !.Content = 0 - i]] : f \in [1..k -> NewSeedObjects]}
              : k \in 0..MaxNewSeed}

\* The slice returned by a ListObjects call: the elements it held when the
\* call returned (returned), the elements it holds now (seen), and whether it
\* is a window on the array of the bucket's activeObjects (shared).
Snap(set, bucket, returned, seen, shared) ==
    [set |-> set, bucket |-> bucket, returned |-> returned, seen |-> seen,
     shared |-> shared]
NoSnap == Snap(FALSE, "", <<>>, <<>>, FALSE)

\* ------------------------------------------- sequential executions
\* A sequential execution that explains what the goroutines have seen so far
\* is kept as the engine state it has reached (st) and, per goroutine, how far
\* the goroutine's current call has got in it (th): "idle" (no call),
\* "pending" (called, not yet taken effect), "half" (a DeleteObject whose
\* GetObject has taken effect and returned obj), "done" (taken effect, to
\* return r).
Slot(status, r, obj) == [status |-> status, r |-> r, obj |-> obj]
IdleSlot == Slot("idle", NoRet, ZeroObject)
PendingSlot == Slot("pending", NoRet, ZeroObject)

\* What a call other than DeleteObject does when it takes effect on map bks
\* at time t: the new map and what is returned.
SeqCall(bks, c, t) ==
    CASE c.op = "CreateBucket" ->
            LET out == CreateBucketBody(bks, getBucketInMemory(bks, c.bucket),
                                        c.bucket, c.flag, t)
            IN  [bks |-> out.bks, r |-> Ret(out.err, {}, <<>>)]
      [] c.op = "CreateObject" ->
            LET out == CreateObjectBody(bks, getBucketInMemory(bks, c.bucket),
                                        ArgObject(c), t)
            IN  [bks |-> out.bks, r |-> Ret(out.err, {}, <<>>)]
      [] c.op = "ListBuckets" -> [bks |-> bks, r |-> ListBucketsRes(bks)]
      [] c.op = "GetBucket" -> [bks |-> bks, r |-> GetBucketRes(bks, c.bucket)]
      [] c.op = "ListObjects" ->
            [bks |-> bks, r |-> ListObjectsRes(bks, c.bucket, c.flag)]
      [] c.op = "GetObject" ->
            [bks |-> bks, r |-> GetObjectRes(bks, c.bucket, c.name)]
      [] c.op = "GetObjectWithGeneration" ->
            [bks |-> bks,
             r |-> GetObjectWithGenerationRes(bks, c.bucket, c.name, c.gen)]

\* DeleteObject's exclusive section taking effect on bks for the object obj
\* that its GetObject returned.
SeqDelete(bks, c, obj, t) ==
    LET out == DeleteObjectBody(bks, getBucketInMemory(bks, c.bucket), c.bucket, obj, t)
    IN  [bks |-> out.bks, r |-> Ret(out.err, {}, <<>>)]

\* The executions reached from execution x by one more effect at time t.
\* With atomic, a DeleteObject takes effect at one instant, GetObject and
\* removal together; without, at two instants, GetObject first.
SeqEffects(x, calls, t, atomic) ==
    UNION {
        LET c == calls[u]
            slot == x.th[u]
        IN  IF slot.status = "pending" /\ c.op # "DeleteObject"
            THEN LET out == SeqCall(x.st, c, t)
                 IN  {[st |-> out.bks,
                       th |-> [x.th EXCEPT ![u] = Slot("done", out.r, ZeroObject)]]}
            ELSE IF slot.status = "pending"
            THEN LET got == GetObjectRes(x.st, c.bucket, c.name)
                 IN  IF got.err # ErrNil
                     THEN {[x EXCEPT !.th[u] = Slot("done", Ret(got.err, {}, <<>>),
                                                    ZeroObject)]}
                     ELSE IF atomic
                     THEN LET out == SeqDelete(x.st, c, got.objs[1], t)
                          IN  {[st |-> out.bks,
                                th |-> [x.th EXCEPT
                                          ![u] = Slot("done", out.r, ZeroObject)]]}
                     ELSE {[x EXCEPT !.th[u] = Slot("half", NoRet, got.objs[1])]}
            ELSE IF slot.status = "half"
            THEN LET out == SeqDelete(x.st, c, slot.obj, t)
                 IN  {[st |-> out.bks,
                       th |-> [x.th EXCEPT ![u] = Slot("done", out.r, ZeroObject)]]}
            ELSE {}
        : u \in Threads}

\* Every execution reached from those of X by effects at time t.
RECURSIVE SeqClosure(_, _, _, _)
SeqClosure(X, calls, t, atomic) ==
    LET more == X \cup UNION {SeqEffects(x, calls, t, atomic) : x \in X}
    IN  IF more = X THEN X ELSE SeqClosure(more, calls, t, atomic)

\* The executions that explain the calls after a step of the goroutines: a
\* call made becomes pending; a call returning r keeps the executions in
\* which it has taken effect and returns r; in between every pending call
\* may take effect, at the time the clock shows.
SeqAfterStep(X, atomic) ==
    LET called == {u \in Threads : pc[u] = "idle" /\ pc'[u] # "idle"}
        returned == {u \in Threads : pc[u] # "done" /\ pc'[u] = "done"}
        acked == {u \in Threads : pc[u] = "done" /\ pc'[u] = "idle"}
        kept == {x \in X : \A u \in returned :
                     x.th[u].status = "done" /\ x.th[u].r = ret'[u]}
        moved == {[x EXCEPT !.th = [u \in Threads |->
                                       IF u \in called THEN PendingSlot
                                       ELSE IF u \in acked THEN IdleSlot
                                       ELSE x.th[u]]] : x \in kept}
    IN  SeqClosure(moved, call', now', atomic)

\* The executions are followed (Observed), or not kept at all (Unobserved).
Observed ==
    /\ lin' = [atomic |-> SeqAfterStep(lin.atomic, TRUE),
               twostep |-> SeqAfterStep(lin.twostep, FALSE)]
    /\ UNCHANGED <<seed, assigned, arrays, snap>>

Unobserved == UNCHANGED <<lin, seed, assigned, arrays, snap>>

\* --------------------------- construction, generations, arrays followed
\* The goroutines whose position changes in the step (none when the clock
\* ticks).
Stepping == {t \in Threads : pc'[t] # pc[t]}

\* Goroutine t's step ends the exclusive section of its op call.
WriteStep(t, op) == pc[t] = "store" /\ call[t].op = op /\ pc'[t] = "done"

\* Goroutine t's step ends the shared section of its op call.
ReadStep(t, op) == pc[t] = "read" /\ call[t].op = op /\ pc'[t] # "read"

\* What the step of goroutine t does to the arrays of the active slices:
\* the arrays after it, and the buckets whose active slice got a new array.
\* A read that concatenates (append(bucketInMemory.activeObjects,
\* bucketInMemory.archivedObjects...)) writes the archive into the spare
\* cells of the bucket's array when it fits; the array it allocates
\* otherwise belongs to its result alone.
ArraysAfter(t) ==
    LET b == call[t].bucket
        known == b \in DOMAIN buckets
        bm == IF known THEN buckets[b] ELSE newBucketInMemory(b, FALSE, now)
        cells == IF known THEN arrays[b] ELSE NoCells
        added == addObjectCells(cells, bm, ArgObject(call[t]), now)
        joined == AppendCells(cells, Len(bm.activeObjects), bm.archivedObjects)
    IN  IF WriteStep(t, "CreateObject")
        THEN [arrs |-> Put(arrays, b, added.cells),
              moved |-> IF added.moved THEN {b} ELSE {}]
        ELSE IF WriteStep(t, "CreateBucket") /\ ~known
        THEN [arrs |-> Put(arrays, b, NoCells), moved |-> {}]
        ELSE IF WriteStep(t, "DeleteObject") /\ known
        THEN [arrs |-> Put(arrays, b, deleteObjectCells(cells, bm, local[t].obj, TRUE)),
              moved |-> {}]
        ELSE IF /\ known /\ ~joined.moved
                /\ \/ ReadStep(t, "ListObjects") /\ call[t].flag
                   \/ ReadStep(t, "GetObjectWithGeneration") /\ call[t].gen # 0
        THEN [arrs |-> Put(arrays, b, joined.cells), moved |-> {}]
        ELSE [arrs |-> arrays, moved |-> {}]

\* The slice returned earlier after the step: a window on an array that the
\* bucket has left holds what it held; a window on the bucket's array holds
\* the array's cells.
SnapAfter(after) ==
    IF ~(snap.set /\ snap.shared) THEN snap
    ELSE IF snap.bucket \in after.moved THEN [snap EXCEPT !.shared = FALSE]
    ELSE [snap EXCEPT !.seen = SubSeq(after.arrs[snap.bucket], 1,
                                        Len(snap.returned))]

\* The slice returned by goroutine t's ListObjects: activeObjects itself
\* (versions = false), or the result of the append.
SnapBy(t) ==
    LET bm == buckets[call[t].bucket]
        joined == AppendCells(arrays[call[t].bucket], Len(bm.activeObjects),
                              bm.archivedObjects)
    IN  Snap(TRUE, call[t].bucket, ret'[t].objs, ret'[t].objs,
               ~call[t].flag \/ ~joined.moved)

\* The first slice a ListObjects call returns is kept, with the arrays and
\* the generations assigned.
Tracked ==
    /\ UNCHANGED <<lin, seed>>
    /\ IF Stepping = {}
       THEN UNCHANGED <<assigned, arrays, snap>>
       ELSE LET t == CHOOSE u \in Stepping : TRUE
                after == ArraysAfter(t)
            IN  /\ assigned' = IF WriteStep(t, "CreateObject") /\ call[t].gen = 0
                               THEN Append(assigned, getNewGenerationIfZero(0, now))
                               ELSE assigned
                /\ arrays' = after.arrs
                /\ snap' = IF /\ ~snap.set
                                /\ ReadStep(t, "ListObjects")
                                /\ ret'[t].err = ErrNil
                             THEN SnapBy(t)
                             ELSE SnapAfter(after)

\* The engine after NewStorageMemory(objects), no call made.
InitEngine(objects) ==
    /\ buckets = NewStorageMemory(objects, Now0)
    /\ readers = {}
    /\ writer = 0
    /\ pc = [t \in Threads |-> "idle"]
    /\ call = [t \in Threads |-> NoCall]
    /\ local = [t \in Threads |-> NoLocal]
    /\ ret = [t \in Threads |-> NoRet]
    /\ now = Now0
    /\ ncalls = 0
    /\ LET start == {[st |-> buckets, th |-> [t \in Threads |-> IdleSlot]]}
       IN  lin = [atomic |-> start, twostep |-> start]

\* Where the construction, the generations and the arrays are not examined
\* they are not kept.
Init ==
    /\ \E objects \in SeedSeqs : InitEngine(objects)
    /\ seed = <<>>
    /\ assigned = <<>>
    /\ arrays = [x \in {} |-> NoCells]
    /\ snap = NoSnap

InitTracked(objects) ==
    /\ InitEngine(objects)
    /\ seed = objects
    /\ assigned = NewStorageMemoryAssigned(objects, Now0)
    /\ arrays = NewStorageMemoryCells(objects, Len(objects), Now0)
    /\ snap = NoSnap

InitNew == \E objects \in NewSeedSeqs : InitTracked(objects)

InitTrack == \E objects \in SeedSeqs : InitTracked(objects)

\* A call that has returned is observed by its caller (Ack) before anything
\* else happens: pc "done" is the instant of the return, with the call, what
\* it returned and the engine's state at that instant side by side.
NoneDone == \A u \in Threads : pc[u] # "done"

\* ---------------------------------------------------------- invocations
Invoke(t, sc, c, first) ==
    /\ NoneDone
    /\ pc[t] = "idle"
    /\ ncalls < sc.maxCalls
    /\ ncalls' = ncalls + 1
    /\ call' = [call EXCEPT ![t] = c]
    /\ pc' = [pc EXCEPT ![t] = first]
    /\ UNCHANGED <<buckets, readers, writer, local, ret, now>>

CallCreateBucket(t, sc) ==
    \E b \in sc.buckets, v \in BOOLEAN :
        Invoke(t, sc, Call("CreateBucket", b, "", 0, 0, v), "lock")

CallListBuckets(t, sc) ==
    Invoke(t, sc, Call("ListBuckets", "", "", 0, 0, FALSE), "rlock")

CallGetBucket(t, sc) ==
    \E b \in sc.buckets :
        Invoke(t, sc, Call("GetBucket", b, "", 0, 0, FALSE), "rlock")

\* The object written by call number k carries payload k.
CallCreateObject(t, sc) ==
    \E b \in sc.buckets, n \in sc.names, g \in UserGens :
        Invoke(t, sc, Call("CreateObject", b, n, g, ncalls + 1, FALSE), "lock")

CallListObjects(t, sc) ==
    \E b \in sc.buckets, v \in BOOLEAN :
        Invoke(t, sc, Call("ListObjects", b, "", 0, 0, v), "rlock")

CallGetObject(t, sc) ==
    \E b \in sc.buckets, n \in sc.names :
        Invoke(t, sc, Call("GetObject", b, n, 0, 0, FALSE), "rlock")

CallGetObjectWithGeneration(t, sc) ==
    \E b \in sc.buckets, n \in sc.names, g \in 1..(MaxNow \div NanosPerMicro) :
        Invoke(t, sc, Call("GetObjectWithGeneration", b, n, g, 0, FALSE), "rlock")

CallDeleteObject(t, sc) ==
    \E b \in sc.buckets, n \in sc.names :
        Invoke(t, sc, Call("DeleteObject", b, n, 0, 0, FALSE), "rlock")

\* --------------------------------------------------------- sync.RWMutex
RLockFree == writer = 0

\* An exclusive lock granted while another goroutine holds it.
LockFree_IgnoreWriter == readers = {}

LockFree == writer = 0 /\ readers = {}

\* s.mtx.RLock()
RLock(t) ==
    /\ NoneDone
    /\ pc[t] = "rlock"
    /\ RLockFree
    /\ readers' = readers \cup {t}
    /\ pc' = [pc EXCEPT ![t] = "read"]
    /\ UNCHANGED <<buckets, writer, call, local, ret, now, ncalls>>

\* s.mtx.Lock()
Lock(t) ==
    /\ NoneDone
    /\ pc[t] = "lock"
    /\ LockFree
    /\ writer' = t
    /\ pc' = [pc EXCEPT ![t] = "load"]
    /\ UNCHANGED <<buckets, readers, call, local, ret, now, ncalls>>

\* ---------------------------------------------- the shared-lock sections
Return(t, r) ==
    /\ ret' = [ret EXCEPT ![t] = r]
    /\ pc' = [pc EXCEPT ![t] = "done"]

\* The caller takes the result; the goroutine is free for its next call.
Ack(t) ==
    /\ pc[t] = "done"
    /\ pc' = [pc EXCEPT ![t] = "idle"]
    /\ call' = [call EXCEPT ![t] = NoCall]
    /\ local' = [local EXCEPT ![t] = NoLocal]
    /\ ret' = [ret EXCEPT ![t] = NoRet]
    /\ UNCHANGED <<buckets, readers, writer, now, ncalls>>

\* The body of a read-only call and its deferred RUnlock.
ReadSection(t, op, r) ==
    /\ NoneDone
    /\ pc[t] = "read"
    /\ call[t].op = op
    /\ readers' = readers \ {t}
    /\ Return(t, r)
    /\ UNCHANGED <<buckets, writer, call, local, now, ncalls>>

ListBuckets(t) == ReadSection(t, "ListBuckets", ListBucketsRes(buckets))

GetBucket(t) == ReadSection(t, "GetBucket", GetBucketRes(buckets, call[t].bucket))

ListObjects(t) ==
    ReadSection(t, "ListObjects", ListObjectsRes(buckets, call[t].bucket, call[t].flag))

GetObject(t) ==
    ReadSection(t, "GetObject", GetObjectRes(buckets, call[t].bucket, call[t].name))

GetObjectWithGeneration(t) ==
    ReadSection(t, "GetObjectWithGeneration",
                GetObjectWithGenerationRes(buckets, call[t].bucket, call[t].name,
                                           call[t].gen))

\* DeleteObject asking for the exclusive lock with the shared lock of its
\* GetObject still held.
DeleteObjectGet_KeepRLock(t) ==
    /\ NoneDone
    /\ pc[t] = "read"
    /\ call[t].op = "DeleteObject"
    /\ LET r == GetObjectRes(buckets, call[t].bucket, call[t].name)
       IN  IF r.err # ErrNil
           THEN /\ Return(t, Ret(r.err, {}, <<>>))
                /\ readers' = readers \ {t}
                /\ UNCHANGED local
           ELSE /\ local' = [local EXCEPT ![t].obj = r.objs[1]]
                /\ pc' = [pc EXCEPT ![t] = "lock"]
                /\ UNCHANGED <<ret, readers>>
    /\ UNCHANGED <<buckets, writer, call, now, ncalls>>

\* DeleteObject, first half: obj, err := s.GetObject(bucketName, objectName);
\* an error is returned, otherwise the exclusive lock is asked for.
DeleteObjectGet(t) ==
    /\ NoneDone
    /\ pc[t] = "read"
    /\ call[t].op = "DeleteObject"
    /\ readers' = readers \ {t}
    /\ LET r == GetObjectRes(buckets, call[t].bucket, call[t].name)
       IN  IF r.err # ErrNil
           THEN /\ Return(t, Ret(r.err, {}, <<>>))
                /\ UNCHANGED local
           ELSE /\ local' = [local EXCEPT ![t].obj = r.objs[1]]
                /\ pc' = [pc EXCEPT ![t] = "lock"]
                /\ UNCHANGED ret
    /\ UNCHANGED <<buckets, writer, call, now, ncalls>>

\* ------------------------------------------- the exclusive-lock sections
\* bucket, err := s.getBucketInMemory(name): the bucket struct is copied out
\* of the map.
Load(t) ==
    /\ NoneDone
    /\ pc[t] = "load"
    /\ local' = [local EXCEPT ![t].looked = getBucketInMemory(buckets, call[t].bucket)]
    /\ pc' = [pc EXCEPT ![t] = "store"]
    /\ UNCHANGED <<buckets, readers, writer, call, ret, now, ncalls>>

\* The rest of an exclusive section: the bucket is changed, written back to
\* the map, and the deferred Unlock runs.
WriteSection(t, op, out) ==
    /\ NoneDone
    /\ pc[t] = "store"
    /\ call[t].op = op
    /\ buckets' = out.bks
    /\ writer' = 0
    /\ Return(t, Ret(out.err, {}, <<>>))
    /\ UNCHANGED <<readers, call, local, now, ncalls>>

CreateBucket(t) ==
    WriteSection(t, "CreateBucket",
                 CreateBucketBody(buckets, local[t].looked, call[t].bucket,
                                  call[t].flag, now))

CreateObject(t) ==
    WriteSection(t, "CreateObject",
                 CreateObjectBody(buckets, local[t].looked, ArgObject(call[t]), now))

DeleteObject(t) ==
    WriteSection(t, "DeleteObject",
                 DeleteObjectBody(buckets, local[t].looked, call[t].bucket,
                                  local[t].obj, now))

\* ------------------------------------------------------------ the clock
Tick ==
    /\ NoneDone
    /\ now < MaxNow
    /\ now' = now + TickNanos
    /\ UNCHANGED <<buckets, readers, writer, pc, call, local, ret, ncalls>>

\* ------------------------------------------------- the specifications
\* Goroutines calling the engine concurrently.
Next ==
    \/ \E t \in Threads : CallCreateBucket(t, ConcScope) /\ Unobserved
    \/ \E t \in Threads : CallListBuckets(t, ConcScope) /\ Unobserved
    \/ \E t \in Threads : CallGetBucket(t, ConcScope) /\ Unobserved
    \/ \E t \in Threads : CallCreateObject(t, ConcScope) /\ Unobserved
    \/ \E t \in Threads : CallListObjects(t, ConcScope) /\ Unobserved
    \/ \E t \in Threads : CallGetObject(t, ConcScope) /\ Unobserved
    \/ \E t \in Threads : CallGetObjectWithGeneration(t, ConcScope) /\ Unobserved
    \/ \E t \in Threads : CallDeleteObject(t, ConcScope) /\ Unobserved
    \/ \E t \in Threads : RLock(t) /\ Unobserved
    \/ \E t \in Threads : Lock(t) /\ Unobserved
    \/ \E t \in Threads : ListBuckets(t) /\ Unobserved
    \/ \E t \in Threads : GetBucket(t) /\ Unobserved
    \/ \E t \in Threads : ListObjects(t) /\ Unobserved
    \/ \E t \in Threads : GetObject(t) /\ Unobserved
    \/ \E t \in Threads : GetObjectWithGeneration(t) /\ Unobserved
    \/ \E t \in Threads : DeleteObjectGet(t) /\ Unobserved
    \/ \E t \in Threads : Load(t) /\ Unobserved
    \/ \E t \in Threads : CreateBucket(t) /\ Unobserved
    \/ \E t \in Threads : CreateObject(t) /\ Unobserved
    \/ \E t \in Threads : DeleteObject(t) /\ Unobserved
    \/ \E t \in Threads : Ack(t) /\ Unobserved
    \/ Tick /\ Unobserved

Spec == Init /\ [][Next]_vars

\* One goroutine calling the engine: every call runs without another call
\* interleaved.
NextSeq ==
    \/ \E t \in {1} : CallCreateBucket(t, SeqScope) /\ Unobserved
    \/ \E t \in {1} : CallListBuckets(t, SeqScope) /\ Unobserved
    \/ \E t \in {1} : CallGetBucket(t, SeqScope) /\ Unobserved
    \/ \E t \in {1} : CallCreateObject(t, SeqScope) /\ Unobserved
    \/ \E t \in {1} : CallListObjects(t, SeqScope) /\ Unobserved
    \/ \E t \in {1} : CallGetObject(t, SeqScope) /\ Unobserved
    \/ \E t \in {1} : CallGetObjectWithGeneration(t, SeqScope) /\ Unobserved
    \/ \E t \in {1} : CallDeleteObject(t, SeqScope) /\ Unobserved
    \/ \E t \in {1} : RLock(t) /\ Unobserved
    \/ \E t \in {1} : Lock(t) /\ Unobserved
    \/ \E t \in {1} : ListBuckets(t) /\ Unobserved
    \/ \E t \in {1} : GetBucket(t) /\ Unobserved
    \/ \E t \in {1} : ListObjects(t) /\ Unobserved
    \/ \E t \in {1} : GetObject(t) /\ Unobserved
    \/ \E t \in {1} : GetObjectWithGeneration(t) /\ Unobserved
    \/ \E t \in {1} : DeleteObjectGet(t) /\ Unobserved
    \/ \E t \in {1} : Load(t) /\ Unobserved
    \/ \E t \in {1} : CreateBucket(t) /\ Unobserved
    \/ \E t \in {1} : CreateObject(t) /\ Unobserved
    \/ \E t \in {1} : DeleteObject(t) /\ Unobserved
    \/ \E t \in {1} : Ack(t) /\ Unobserved
    \/ Tick /\ Unobserved

SpecSeq == Init /\ [][NextSeq]_vars

\* Goroutines calling the engine concurrently on one object name.
StepLin ==
    \/ \E t \in Threads : CallCreateBucket(t, LinScope)
    \/ \E t \in Threads : CallListBuckets(t, LinScope)
    \/ \E t \in Threads : CallGetBucket(t, LinScope)
    \/ \E t \in Threads : CallCreateObject(t, LinScope)
    \/ \E t \in Threads : CallListObjects(t, LinScope)
    \/ \E t \in Threads : CallGetObject(t, LinScope)
    \/ \E t \in Threads : CallGetObjectWithGeneration(t, LinScope)
    \/ \E t \in Threads : CallDeleteObject(t, LinScope)
    \/ \E t \in Threads : RLock(t)
    \/ \E t \in Threads : Lock(t)
    \/ \E t \in Threads : ListBuckets(t)
    \/ \E t \in Threads : GetBucket(t)
    \/ \E t \in Threads : ListObjects(t)
    \/ \E t \in Threads : GetObject(t)
    \/ \E t \in Threads : GetObjectWithGeneration(t)
    \/ \E t \in Threads : DeleteObjectGet(t)
    \/ \E t \in Threads : Load(t)
    \/ \E t \in Threads : CreateBucket(t)
    \/ \E t \in Threads : CreateObject(t)
    \/ \E t \in Threads : DeleteObject(t)
    \/ \E t \in Threads : Ack(t)
    \/ Tick

\* Every step of the goroutines is followed by the sequential executions
\* that explain their calls.
NextLin == StepLin /\ Observed

SpecLin == Init /\ [][NextLin]_vars

\* Goroutines calling the engine concurrently, every call followed to its
\* return.
NextLive ==
    \/ \E t \in Threads : CallCreateBucket(t, LiveScope) /\ Unobserved
    \/ \E t \in Threads : CallListBuckets(t, LiveScope) /\ Unobserved
    \/ \E t \in Threads : CallGetBucket(t, LiveScope) /\ Unobserved
    \/ \E t \in Threads : CallCreateObject(t, LiveScope) /\ Unobserved
    \/ \E t \in Threads : CallListObjects(t, LiveScope) /\ Unobserved
    \/ \E t \in Threads : CallGetObject(t, LiveScope) /\ Unobserved
    \/ \E t \in Threads : CallGetObjectWithGeneration(t, LiveScope) /\ Unobserved
    \/ \E t \in Threads : CallDeleteObject(t, LiveScope) /\ Unobserved
    \/ \E t \in Threads : RLock(t) /\ Unobserved
    \/ \E t \in Threads : Lock(t) /\ Unobserved
    \/ \E t \in Threads : ListBuckets(t) /\ Unobserved
    \/ \E t \in Threads : GetBucket(t) /\ Unobserved
    \/ \E t \in Threads : ListObjects(t) /\ Unobserved
    \/ \E t \in Threads : GetObject(t) /\ Unobserved
    \/ \E t \in Threads : GetObjectWithGeneration(t) /\ Unobserved
    \/ \E t \in Threads : DeleteObjectGet(t) /\ Unobserved
    \/ \E t \in Threads : Load(t) /\ Unobserved
    \/ \E t \in Threads : CreateBucket(t) /\ Unobserved
    \/ \E t \in Threads : CreateObject(t) /\ Unobserved
    \/ \E t \in Threads : DeleteObject(t) /\ Unobserved
    \/ \E t \in Threads : Ack(t) /\ Unobserved
    \/ Tick /\ Unobserved

\* The steps of goroutine t inside the engine that need no lock granted.
Running(t) ==
    \/ ListBuckets(t) \/ GetBucket(t) \/ ListObjects(t) \/ GetObject(t)
    \/ GetObjectWithGeneration(t) \/ DeleteObjectGet(t)
    \/ Load(t) \/ CreateBucket(t) \/ CreateObject(t) \/ DeleteObject(t)
    \/ Ack(t)

\* The scheduler runs every goroutine that can run, and the lock is fair: a
\* goroutine that asks for the lock, shared or exclusive, gets it if the lock
\* is free to it again and again.  Callers are not obliged to call.
Fairness ==
    \A t \in Threads :
        /\ WF_vars(Running(t) /\ Unobserved)
        /\ SF_vars(RLock(t) /\ Unobserved)
        /\ SF_vars(Lock(t) /\ Unobserved)

SpecLive == Init /\ [][NextLive]_vars /\ Fairness

\* One goroutine calling the engine after a construction from a longer
\* sequence of objects.
NextNew ==
    \/ \E t \in {1} : CallCreateBucket(t, NewScope) /\ Tracked
    \/ \E t \in {1} : CallListBuckets(t, NewScope) /\ Tracked
    \/ \E t \in {1} : CallGetBucket(t, NewScope) /\ Tracked
    \/ \E t \in {1} : CallCreateObject(t, NewScope) /\ Tracked
    \/ \E t \in {1} : CallListObjects(t, NewScope) /\ Tracked
    \/ \E t \in {1} : CallGetObject(t, NewScope) /\ Tracked
    \/ \E t \in {1} : CallGetObjectWithGeneration(t, NewScope) /\ Tracked
    \/ \E t \in {1} : CallDeleteObject(t, NewScope) /\ Tracked
    \/ \E t \in {1} : RLock(t) /\ Tracked
    \/ \E t \in {1} : Lock(t) /\ Tracked
    \/ \E t \in {1} : ListBuckets(t) /\ Tracked
    \/ \E t \in {1} : GetBucket(t) /\ Tracked
    \/ \E t \in {1} : ListObjects(t) /\ Tracked
    \/ \E t \in {1} : GetObject(t) /\ Tracked
    \/ \E t \in {1} : GetObjectWithGeneration(t) /\ Tracked
    \/ \E t \in {1} : DeleteObjectGet(t) /\ Tracked
    \/ \E t \in {1} : Load(t) /\ Tracked
    \/ \E t \in {1} : CreateBucket(t) /\ Tracked
    \/ \E t \in {1} : CreateObject(t) /\ Tracked
    \/ \E t \in {1} : DeleteObject(t) /\ Tracked
    \/ \E t \in {1} : Ack(t) /\ Tracked
    \/ Tick /\ Tracked

SpecNew == InitNew /\ [][NextNew]_vars

\* One goroutine calling the engine, with the generations assigned and the
\* arrays of the slices followed.
NextTrack ==
    \/ \E t \in {1} : CallCreateBucket(t, TrackScope) /\ Tracked
    \/ \E t \in {1} : CallListBuckets(t, TrackScope) /\ Tracked
    \/ \E t \in {1} : CallGetBucket(t, TrackScope) /\ Tracked
    \/ \E t \in {1} : CallCreateObject(t, TrackScope) /\ Tracked
    \/ \E t \in {1} : CallListObjects(t, TrackScope) /\ Tracked
    \/ \E t \in {1} : CallGetObject(t, TrackScope) /\ Tracked
    \/ \E t \in {1} : CallGetObjectWithGeneration(t, TrackScope) /\ Tracked
    \/ \E t \in {1} : CallDeleteObject(t, TrackScope) /\ Tracked
    \/ \E t \in {1} : RLock(t) /\ Tracked
    \/ \E t \in {1} : Lock(t) /\ Tracked
    \/ \E t \in {1} : ListBuckets(t) /\ Tracked
    \/ \E t \in {1} : GetBucket(t) /\ Tracked
    \/ \E t \in {1} : ListObjects(t) /\ Tracked
    \/ \E t \in {1} : GetObject(t) /\ Tracked
    \/ \E t \in {1} : GetObjectWithGeneration(t) /\ Tracked
    \/ \E t \in {1} : DeleteObjectGet(t) /\ Tracked
    \/ \E t \in {1} : Load(t) /\ Tracked
    \/ \E t \in {1} : CreateBucket(t) /\ Tracked
    \/ \E t \in {1} : CreateObject(t) /\ Tracked
    \/ \E t \in {1} : DeleteObject(t) /\ Tracked
    \/ \E t \in {1} : Ack(t) /\ Tracked
    \/ Tick /\ Tracked

SpecTrack == InitTrack /\ [][NextTrack]_vars

\* ================================================================ claims
\* The positions of the entries named n in a bucket's active objects.
ActiveNamed(bm, n) == {i \in 1..Len(bm.activeObjects) : bm.activeObjects[i].Name = n}

Elems(seq) == {seq[i] : i \in 1..Len(seq)}

\* Entry e is what call c wrote: c's object, with a generation assigned.
IsWritten(e, c) ==
    /\ e.BucketName = c.bucket /\ e.Name = c.name /\ e.Content = c.content
    /\ e.Deleted = <<>>
    /\ e.Generation # 0
    /\ c.gen # 0 => e.Generation = c.gen

\* C1: in a versioning-enabled bucket, a CreateObject of an object whose
\* logical identity is active leaves the written object as the only active
\* entry of that identity, appends the entry that was active to the archive,
\* unchanged but for a non-empty deleted marker, and ListObjects(bucket, true)
\* then returns both.
C1_SupersedeArchives ==
    [][\A t \in Threads :
        LET b == call[t].bucket
            n == call[t].name
        IN  (/\ WriteStep(t, "CreateObject")
             /\ b \in DOMAIN buckets
             /\ buckets[b].VersioningEnabled
             /\ ActiveNamed(buckets[b], n) # {})
            => LET before == buckets[b]
                   old == before.activeObjects[CHOOSE i \in ActiveNamed(before, n) : TRUE]
                   after == buckets'[b]
                   hits == ActiveNamed(after, n)
                   last == after.archivedObjects[Len(after.archivedObjects)]
                   listed == Elems(ListObjectsRes(buckets', b, TRUE).objs)
               IN  /\ Cardinality(hits) = 1
                   /\ \A i \in hits : IsWritten(after.activeObjects[i], call[t])
                   /\ Len(after.archivedObjects) = Len(before.archivedObjects) + 1
                   /\ SubSeq(after.archivedObjects, 1, Len(before.archivedObjects))
                        = before.archivedObjects
                   /\ last.Deleted # <<>>
                   /\ [last EXCEPT !.Deleted = old.Deleted] = old
                   /\ last \in listed
                   /\ \A i \in hits : after.activeObjects[i] \in listed
                   /\ ret'[t].err = ErrNil
      ]_vars

\* A CreateObject has just returned in a versioning-enabled bucket whose
\* archive ends with a superseded version of the written name.
C1_Witness ==
    \E t \in Threads :
        /\ pc[t] = "done" /\ call[t].op = "CreateObject"
        /\ call[t].bucket \in DOMAIN buckets
        /\ LET bm == buckets[call[t].bucket]
           IN  /\ bm.VersioningEnabled
               /\ bm.archivedObjects # <<>>
               /\ bm.archivedObjects[Len(bm.archivedObjects)].Name = call[t].name
               /\ bm.archivedObjects[Len(bm.archivedObjects)].Content # call[t].content
               /\ \E i \in ActiveNamed(bm, call[t].name) :
                      bm.activeObjects[i].Content = call[t].content

\* C2: in every reachable state, under every interleaving of the calls, a
\* bucket's activeObjects holds at most one entry per logical identity.
C2_ActiveUnique ==
    \A b \in DOMAIN buckets :
        \A i, j \in 1..Len(buckets[b].activeObjects) :
            i # j => IDNoGen(buckets[b].activeObjects[i])
                       # IDNoGen(buckets[b].activeObjects[j])

\* A bucket holds two active objects after one of them was overwritten by a
\* later call than the one that wrote the other.
C2_Witness ==
    \E b \in DOMAIN buckets :
        /\ Len(buckets[b].activeObjects) = 2
        /\ buckets[b].activeObjects[1].Content > buckets[b].activeObjects[2].Content
        /\ buckets[b].activeObjects[2].Content > 0

\* C7: a versioning-disabled bucket has an empty archive in every reachable
\* state, so ListObjects(bucket, true) equals ListObjects(bucket, false); and
\* when a CreateObject has returned, ListObjects(bucket, true) holds exactly
\* one entry of the written name, the object just written.
C7_NoArchiveUnversioned ==
    /\ \A b \in DOMAIN buckets :
          ~buckets[b].VersioningEnabled =>
              /\ buckets[b].archivedObjects = <<>>
              /\ ListObjectsRes(buckets, b, TRUE) = ListObjectsRes(buckets, b, FALSE)
    /\ \A t \in Threads :
          (/\ pc[t] = "done" /\ call[t].op = "CreateObject"
           /\ ~buckets[call[t].bucket].VersioningEnabled)
          => LET objs == ListObjectsRes(buckets, call[t].bucket, TRUE).objs
                 hits == {i \in 1..Len(objs) : objs[i].Name = call[t].name}
             IN  /\ Cardinality(hits) = 1
                 /\ \A i \in hits : IsWritten(objs[i], call[t])

\* A CreateObject has just overwritten an object of a versioning-disabled
\* bucket (the object was already there when the engine was constructed, or
\* was written by an earlier call).
C7_Witness ==
    \E t \in Threads :
        /\ pc[t] = "done" /\ call[t].op = "CreateObject"
        /\ ~buckets[call[t].bucket].VersioningEnabled
        /\ Len(buckets[call[t].bucket].activeObjects) = 2
        /\ buckets[call[t].bucket].activeObjects[1].Name = call[t].name
        /\ buckets[call[t].bucket].activeObjects[1].Content = call[t].content

\* C8: CreateBucket(name, v) on a name that exists returns success when the
\* bucket's versioning flag is v and Conflict when it is not, and either way
\* the bucket map and the bucket (flag, creation time, active and archived
\* objects) stay as they were.
C8_CreateBucketExisting ==
    [][\A t \in Threads :
        (WriteStep(t, "CreateBucket") /\ call[t].bucket \in DOMAIN buckets)
        => /\ ret'[t].err = IF buckets[call[t].bucket].VersioningEnabled = call[t].flag
                            THEN ErrNil ELSE ErrConflict
           /\ buckets' = buckets
      ]_vars

\* A CreateBucket has just returned Conflict for a bucket that holds objects.
C8_Witness ==
    \E t \in Threads :
        /\ pc[t] = "done" /\ call[t].op = "CreateBucket"
        /\ ret[t].err = ErrConflict
        /\ call[t].bucket \in DOMAIN buckets
        /\ buckets[call[t].bucket].activeObjects # <<>>

\* C9: on a bucket name the engine does not hold, GetBucket, ListObjects,
\* GetObject, GetObjectWithGeneration and DeleteObject fail with NotFound,
\* and CreateObject succeeds and creates the bucket with versioning disabled,
\* the written object as its only active entry and an empty archive.
C9_UnknownBucket ==
    [][\A t \in Threads :
        call[t].bucket \notin DOMAIN buckets
        => /\ \A op \in {"GetBucket", "ListObjects", "GetObject",
                         "GetObjectWithGeneration", "DeleteObject"} :
                 ReadStep(t, op) =>
                     /\ pc'[t] = "done"
                     /\ ret'[t].err = ErrNotFound
                     /\ buckets' = buckets
           /\ WriteStep(t, "CreateObject") =>
                 /\ ret'[t].err = ErrNil
                 /\ DOMAIN buckets' = DOMAIN buckets \cup {call[t].bucket}
                 /\ \A x \in DOMAIN buckets : buckets'[x] = buckets[x]
                 /\ LET bm == buckets'[call[t].bucket]
                    IN  /\ bm.Name = call[t].bucket
                        /\ ~bm.VersioningEnabled
                        /\ Len(bm.activeObjects) = 1
                        /\ IsWritten(bm.activeObjects[1], call[t])
                        /\ bm.archivedObjects = <<>>
      ]_vars

\* A DeleteObject has just failed with NotFound on a bucket name the engine
\* does not hold.
C9_Witness ==
    \E t \in Threads :
        /\ pc[t] = "done" /\ call[t].op = "DeleteObject"
        /\ ret[t].err = ErrNotFound
        /\ call[t].bucket \notin DOMAIN buckets

\* C10: a call that returns an error leaves the bucket map and every bucket
\* as they were: the step that returns the error changes nothing, and no
\* step of a call changes anything but the last step of a call that succeeds.
C10_ErrorsChangeNothing ==
    [][/\ \A t \in Threads :
             (pc[t] # "done" /\ pc'[t] = "done" /\ ret'[t].err # ErrNil)
             => buckets' = buckets
       /\ buckets' # buckets
             => \E t \in Threads :
                    /\ pc[t] = "store" /\ pc'[t] = "done" /\ ret'[t].err = ErrNil
                    /\ call[t].op \in {"CreateBucket", "CreateObject", "DeleteObject"}
      ]_vars

\* A CreateBucket has just returned Conflict.
C10_Witness ==
    \E t \in Threads :
        /\ pc[t] = "done" /\ call[t].op = "CreateBucket"
        /\ ret[t].err = ErrConflict
        /\ buckets[call[t].bucket].VersioningEnabled

\* The deleted marker aside, entries e and f are the same version.
SameVersion(e, f) == [e EXCEPT !.Deleted = f.Deleted] = f

\* C4 (as claimed): in a versioning-enabled bucket, when a DeleteObject that
\* ran with no call interleaved has returned success, GetObject fails with
\* NotFound, GetObjectWithGeneration with the deleted version's generation
\* returns the deleted version, and ListObjects(bucket, true) contains it.
\* local[1].obj is the version DeleteObject read and deleted.
C4_DeleteVersioned ==
    (/\ pc[1] = "done" /\ call[1].op = "DeleteObject" /\ ret[1].err = ErrNil
     /\ buckets[call[1].bucket].VersioningEnabled)
    => LET b == call[1].bucket
           n == call[1].name
           gone == local[1].obj
           got == GetObjectWithGenerationRes(buckets, b, n, gone.Generation)
       IN  /\ GetObjectRes(buckets, b, n).err = ErrNotFound
           /\ got.err = ErrNil
           /\ SameVersion(got.objs[1], gone)
           /\ got.objs[1].Deleted # <<>>
           /\ \E e \in Elems(ListObjectsRes(buckets, b, TRUE).objs) :
                  SameVersion(e, gone) /\ e.Deleted # <<>>

\* C5: in a versioning-disabled bucket, when a DeleteObject that ran with no
\* call interleaved returns success, GetObject fails with NotFound,
\* ListObjects(bucket, true) holds no entry of that name, and every other
\* entry that was active is still listed.
C5_DeleteUnversioned ==
    [][(/\ WriteStep(1, "DeleteObject") /\ ret'[1].err = ErrNil
        /\ ~buckets[call[1].bucket].VersioningEnabled)
       => LET b == call[1].bucket
              n == call[1].name
              listed == Elems(ListObjectsRes(buckets', b, TRUE).objs)
          IN  /\ GetObjectRes(buckets', b, n).err = ErrNotFound
              /\ \A e \in listed : e.Name # n
              /\ \A e \in Elems(buckets[b].activeObjects) : e.Name # n => e \in listed
              /\ \A x \in DOMAIN buckets \ {b} : buckets'[x] = buckets[x]
      ]_vars

\* A DeleteObject has just removed the first of two active objects of a
\* versioning-disabled bucket.
C5_Witness ==
    /\ pc[1] = "done" /\ call[1].op = "DeleteObject" /\ ret[1].err = ErrNil
    /\ ~buckets[call[1].bucket].VersioningEnabled
    /\ Len(buckets[call[1].bucket].activeObjects) = 1
    /\ buckets[call[1].bucket].activeObjects[1].Name # call[1].name
    /\ local[1].looked.bucket.activeObjects[1].Name = call[1].name

\* C6 (as claimed): for every archived entry e of a bucket,
\* GetObjectWithGeneration(bucket, e.Name, e.Generation) returns e itself; and
\* GetObjectWithGeneration(bucket, name, 0) returns the active version of name.
C6_GenerationRoundTrip ==
    \A b \in DOMAIN buckets :
        /\ \A e \in Elems(buckets[b].archivedObjects) :
              GetObjectWithGenerationRes(buckets, b, e.Name, e.Generation)
                = Ret(ErrNil, {}, <<e>>)
        /\ \A a \in Elems(buckets[b].activeObjects) :
              GetObjectWithGenerationRes(buckets, b, a.Name, 0) = Ret(ErrNil, {}, <<a>>)

\* No call is in progress.
Quiescent == \A t \in Threads : pc[t] \in {"idle", "done"}

\* Some execution of X explains the results returned so far and, when no
\* call is in progress, ends in the engine's state.
Explained(X) ==
    /\ X # {}
    /\ Quiescent => \E x \in X : x.st = buckets

\* C3 (as claimed): the results returned and the final engine state of every
\* concurrent execution are those of a sequential execution in which each
\* call, DeleteObject included, takes effect at one instant between its
\* invocation and its return.
C3_AllCallsAtomic == Explained(lin.atomic)

\* C3 (amended): the same, with each call other than DeleteObject taking
\* effect at one instant and each DeleteObject at two instants between its
\* invocation and its return, its GetObject and then the removal of the
\* version that GetObject returned.
C3_AtomicButDelete == Explained(lin.twostep)

\* A DeleteObject has just returned success where no sequential execution
\* with DeleteObject taking effect at one instant explains the results, and
\* one with DeleteObject taking effect at two instants does.
C3_Witness ==
    /\ lin.atomic = {}
    /\ Explained(lin.twostep)
    /\ \E t \in Threads :
          pc[t] = "done" /\ call[t].op = "DeleteObject" /\ ret[t].err = ErrNil

\* C11: a bucket that exists (by construction, by CreateBucket or by a
\* CreateObject on an unknown name) exists after every step, with the same
\* versioning flag and the same creation time, whatever CreateBucket,
\* CreateObject and DeleteObject calls are made.
C11_BucketsPersist ==
    [][\A b \in DOMAIN buckets :
          /\ b \in DOMAIN buckets'
          /\ BucketOf(buckets'[b]) = BucketOf(buckets[b])
      ]_vars

\* A DeleteObject has just removed an object from a versioning-enabled bucket
\* that was created before the clock's last tick.
C11_Witness ==
    \E t \in Threads :
        /\ pc[t] = "done" /\ call[t].op = "DeleteObject" /\ ret[t].err = ErrNil
        /\ buckets[call[t].bucket].VersioningEnabled
        /\ buckets[call[t].bucket].TimeCreated < now
        /\ buckets[call[t].bucket].archivedObjects # <<>>

\* The positions of the active entries of bm with the full identity of obj.
ActiveWithID(bm, obj) ==
    {i \in 1..Len(bm.activeObjects) : ID(bm.activeObjects[i]) = ID(obj)}

\* C14: DeleteObject returns success from its exclusive section, and removes
\* the active entry whose full identity is that of the object its read step
\* returned, and nothing else; when no active entry has that identity (the
\* object was deleted or replaced by another generation in between) it
\* changes no state.
C14_DeleteMatchesFullIdentity ==
    [][\A t \in Threads :
        WriteStep(t, "DeleteObject")
        => LET b == call[t].bucket
               hits == ActiveWithID(buckets[b], local[t].obj)
               gone == {buckets[b].activeObjects[i] : i \in hits}
           IN  /\ ret'[t].err = ErrNil
               /\ DOMAIN buckets' = DOMAIN buckets
               /\ \A x \in DOMAIN buckets \ {b} : buckets'[x] = buckets[x]
               /\ IF hits = {}
                  THEN buckets' = buckets
                  ELSE /\ Len(buckets'[b].activeObjects)
                            = Len(buckets[b].activeObjects) - 1
                       /\ Elems(buckets'[b].activeObjects)
                            = Elems(buckets[b].activeObjects) \ gone
      ]_vars

\* A DeleteObject has just returned success while a version of its name
\* with another generation than the one it read is active: the object was
\* replaced between its two sections.
C14_Witness ==
    \E t \in Threads :
        /\ pc[t] = "done" /\ call[t].op = "DeleteObject" /\ ret[t].err = ErrNil
        /\ \E e \in Elems(buckets[call[t].bucket].activeObjects) :
               /\ e.Name = call[t].name
               /\ e.Generation # local[t].obj.Generation

\* C15 (as claimed): in a versioning-enabled bucket, when DeleteObject
\* removes an active entry, the entry it appends to the archive equals the
\* removed entry in every field but the deleted marker.
C15_DeleteArchivesRemoved ==
    [][\A t \in Threads :
        LET b == call[t].bucket
            hits == ActiveWithID(buckets[b], local[t].obj)
        IN  (/\ WriteStep(t, "DeleteObject")
             /\ buckets[b].VersioningEnabled
             /\ hits # {})
            => LET removed == buckets[b].activeObjects[CHOOSE i \in hits : TRUE]
                   after == buckets'[b].archivedObjects
               IN  /\ Len(after) = Len(buckets[b].archivedObjects) + 1
                   /\ SameVersion(after[Len(after)], removed)
      ]_vars

\* C16 (as claimed): the archived entries of a bucket that share a logical
\* identity differ pairwise in their generation.
C16_ArchiveGenerationsDistinct ==
    \A b \in DOMAIN buckets :
        \A i, j \in 1..Len(buckets[b].archivedObjects) :
            (/\ i # j
             /\ IDNoGen(buckets[b].archivedObjects[i])
                  = IDNoGen(buckets[b].archivedObjects[j]))
            => buckets[b].archivedObjects[i].Generation
                 # buckets[b].archivedObjects[j].Generation

\* C17: every step of every operation keeps the entries a bucket's archive
\* held, in their places and with all their fields; the archive only grows
\* at its end.
C17_ArchiveFrozen ==
    [][\A b \in DOMAIN buckets :
          LET old == buckets[b].archivedObjects
              new == buckets'[b].archivedObjects
          IN  /\ Len(new) >= Len(old)
              /\ SubSeq(new, 1, Len(old)) = old
      ]_vars

\* A CreateObject has just superseded a version in a bucket whose archive
\* held an entry already.
C17_Witness ==
    \E t \in Threads :
        /\ pc[t] = "done" /\ call[t].op = "CreateObject"
        /\ LET bm == buckets[call[t].bucket]
           IN  /\ Len(bm.archivedObjects) >= 2
               /\ bm.archivedObjects[Len(bm.archivedObjects)].Name = call[t].name
               /\ local[t].looked.bucket.archivedObjects
                    = SubSeq(bm.archivedObjects, 1, Len(bm.archivedObjects) - 1)

\* C18: in every reachable state every archived entry of every bucket has a
\* non-empty deleted marker.
C18_ArchivedAreMarked ==
    \A b \in DOMAIN buckets :
        \A e \in Elems(buckets[b].archivedObjects) : e.Deleted # <<>>

\* A DeleteObject has just archived the version it read, in a bucket whose
\* archive already held another version of the name.
C18_Witness ==
    \E t \in Threads :
        /\ pc[t] = "done" /\ call[t].op = "DeleteObject" /\ ret[t].err = ErrNil
        /\ LET arch == buckets[call[t].bucket].archivedObjects
           IN  /\ Len(arch) = 2
               /\ SameVersion(arch[2], local[t].obj)
               /\ arch[1].Name = call[t].name
               /\ arch[1].Content # arch[2].Content

\* Some goroutine is inside a call.
InCall == \E t \in Threads : pc[t] # "idle"

\* Some goroutine inside a call can take its next step.
CanProgress == \E t \in Threads : ENABLED (Running(t) \/ RLock(t) \/ Lock(t))

\* C13: no state in which a call is in progress is a deadlock, and with a
\* fair lock and a fair scheduler every started call returns, DeleteObject
\* with its shared and then exclusive section included.
C13_EveryCallReturns ==
    /\ [](InCall => CanProgress)
    /\ \A t \in Threads : (pc[t] # "idle") ~> (pc[t] = "done")

\* A DeleteObject has just returned success from its exclusive section while
\* the other goroutine is inside a call and asks for the lock.
C13_Witness ==
    \E t, u \in Threads :
        /\ t # u
        /\ pc[t] = "done" /\ call[t].op = "DeleteObject" /\ ret[t].err = ErrNil
        /\ pc[u] \in {"rlock", "lock"}

\* The engine state bks is what the claim says a construction from the
\* sequence S gives.
Constructed(bks, S) ==
    LET last == {i \in 1..Len(S) :
                    \A j \in (i + 1)..Len(S) : IDNoGen(S[j]) # IDNoGen(S[i])}
    IN  /\ DOMAIN bks = {S[i].BucketName : i \in 1..Len(S)}
        /\ \A b \in DOMAIN bks :
              /\ ~bks[b].VersioningEnabled
              /\ bks[b].archivedObjects = <<>>
              /\ Len(bks[b].activeObjects)
                   = Cardinality({i \in last : S[i].BucketName = b})
        /\ \A i \in last :
              \E e \in Elems(bks[S[i].BucketName].activeObjects) :
                  /\ [e EXCEPT !.Generation = S[i].Generation] = S[i]
                  /\ e.Generation # 0
                  /\ S[i].Generation # 0 => e.Generation = S[i].Generation

\* C12: after NewStorageMemory(S) the buckets are those named in S, each
\* with versioning disabled and an empty archive, and the active entries are,
\* one per logical identity occurring in S, the last object of S with that
\* identity, given a generation if its generation was 0.
C12_ConstructedFromSequence ==
    ncalls = 0 => Constructed(buckets, seed)

\* The engine was constructed from three objects, the first and the last of
\* one logical identity, the last with generation 0, and the second of
\* another bucket.
C12_Witness ==
    /\ ncalls = 0
    /\ Len(seed) = 3
    /\ IDNoGen(seed[1]) = IDNoGen(seed[3])
    /\ seed[1].Generation # 0 /\ seed[3].Generation = 0
    /\ seed[2].BucketName # seed[1].BucketName
    /\ Len(buckets[seed[1].BucketName].activeObjects) = 1
    /\ buckets[seed[1].BucketName].activeObjects[1].Content = seed[3].Content

\* Every bucket's activeObjects is the window on its array.
ArraysAgree ==
    /\ DOMAIN arrays = DOMAIN buckets
    /\ \A b \in DOMAIN buckets :
          /\ Len(buckets[b].activeObjects) <= Len(arrays[b])
          /\ SubSeq(arrays[b], 1, Len(buckets[b].activeObjects))
               = buckets[b].activeObjects

\* C19 (as claimed): of any two generations assigned to objects written
\* with generation 0, the later is strictly greater than the earlier.
C19_AssignedIncrease ==
    \A i, j \in 1..Len(assigned) : i < j => assigned[i] < assigned[j]

\* C20 (as claimed): the sequence a completed ListObjects call returned holds
\* the elements it held when the call returned, whatever operations the
\* engine has executed since.
C20_ListedIsStable ==
    snap.set => snap.seen = snap.returned

====
